---- MODULE Spec2Model ----
(***************************************************************************)
(* Model of snowybrowser.py: the Browser window's tab, navigation,         *)
(* bookmark, extension, data-clearing, inspection-panel and session code.  *)
(*                                                                         *)
(* Text is a sequence of tokens (a token stands for a run of characters),  *)
(* so that QUrl.fromUserInput and QUrl.toString are computed, not assumed. *)
(* Page titles are sequences of one-character strings.                     *)
(***************************************************************************)
EXTENDS Integers, Sequences, FiniteSets, TLC

\* ---------------------------------------------------------------- bounds
MaxViews == 4          \* QWebEngineView objects created over a whole run
MaxSessionLen == 2     \* URLs in a session file found on disk at first launch
MaxBookmarks == 2      \* length of the in-memory bookmark list
MaxDocks == 2          \* DevTools docks created by one process

\* ---------------------------------------------------------------- text
SP == " "
Range(s) == {s[i] : i \in 1..Len(s)}

\* str.strip() as QString::trimmed() does it inside fromUserInput
RECURSIVE TrimLeft(_)
TrimLeft(s) == IF s # <<>> /\ Head(s) = SP THEN TrimLeft(Tail(s)) ELSE s
RECURSIVE TrimRight(_)
TrimRight(s) ==
    IF s # <<>> /\ s[Len(s)] = SP THEN TrimRight(SubSeq(s, 1, Len(s) - 1)) ELSE s
Trimmed(s) == TrimRight(TrimLeft(s))

\* Python slice s[:n]
Prefix(s, n) == SubSeq(s, 1, IF Len(s) < n THEN Len(s) ELSE n)

TITLE_CUT == 20        \* t[:20] in the titleChanged handler
BOOKMARK_CUT == 15     \* bm["title"][:15] in refresh_bookmark_bar
ICON_SIZE == 16        \* ic.pixmap(16,16)

NEW_TAB_TITLE == <<"N", "e", "w", " ", "T", "a", "b">>
ShortTitle == <<"E", "x", "a", "m", "p", "l", "e">>
LongTitle == [i \in 1..(TITLE_CUT + 1) |-> "x"]
Titles == {LongTitle}
Icons == {"favicon"}

\* ---------------------------------------------------------------- QUrl
\* A QUrl value: scheme, whether an authority ("//") follows, and the rest.
InvalidUrl == [scheme |-> "", auth |-> FALSE, rest |-> <<>>]
NumTokens == {"8080"}                \* tokens that read as a port number
PathTokens == {"/search?q="}         \* tokens that start the path

\* QUrl.scheme()
scheme(q) == q.scheme

\* QUrl.toString()
toString(q) ==
    IF q = InvalidUrl THEN <<>>
    ELSE <<q.scheme, IF q.auth THEN "://" ELSE ":">> \o q.rest

\* the authority part of the text after "scheme://": up to the first path token
RECURSIVE HostPart(_)
HostPart(s) ==
    IF s = <<>> \/ Head(s) \in PathTokens THEN <<>>
    ELSE <<Head(s)>> \o HostPart(Tail(s))

\* QUrl(text, TolerantMode): blanks are tolerated in path and query, but a
\* host that holds a blank, or a port that is no number, makes it invalid.
ParseUrl(t) ==
    IF Len(t) >= 2 /\ t[2] = "://" /\ t[1] # SP
    THEN LET r == SubSeq(t, 3, Len(t))
             h == HostPart(r)
         IN  IF SP \in Range(h) THEN InvalidUrl
             ELSE IF Len(h) >= 2 /\ h[2] = ":" /\ (Len(h) < 3 \/ h[3] \notin NumTokens)
             THEN InvalidUrl
             ELSE [scheme |-> t[1], auth |-> TRUE, rest |-> r]
    ELSE IF Len(t) >= 2 /\ t[2] = ":" /\ t[1] # SP
    THEN [scheme |-> t[1], auth |-> FALSE, rest |-> SubSeq(t, 3, Len(t))]
    ELSE [scheme |-> "", auth |-> FALSE, rest |-> t]

\* QUrl.port() of a parsed URL with an authority, -1 when it has none
HasPort(q) ==
    /\ q # InvalidUrl
    /\ q.auth
    /\ LET h == HostPart(q.rest) IN Len(h) >= 3 /\ h[2] = ":" /\ h[3] \in NumTokens

\* QUrl.fromUserInput(text)
fromUserInput(text) ==
    LET t == Trimmed(text)
        url == ParseUrl(t)
        urlPrepended == ParseUrl(<<"http", "://">> \o t)
    IN  IF t = <<>> THEN InvalidUrl
        ELSE IF url # InvalidUrl /\ scheme(url) # "" /\ ~HasPort(urlPrepended)
        THEN url
        ELSE IF urlPrepended # InvalidUrl /\ urlPrepended.rest # <<>>
        THEN urlPrepended
        ELSE InvalidUrl

\* QUrl(f"https://www.google.com/search?q={text}")
SearchUrl(text) ==
    ParseUrl(<<"https", "://", "www.google.com", "/search?q=">> \o text)

DEFAULT_URL == <<"https", "://", "www.google.com">>     \* new_tab's default
BLANK_URL == <<"about", ":", "blank">>
OPENAI_URL == <<"https", "://", "openai.com">>
OPENAI_TEXT == <<"openai">>
FREE_TEXT == <<"hello", SP, "world">>
FREE_TEXT_BLANK == <<"hello", SP, "world", SP>>     \* typed with a blank after it
HOST_PORT == <<"localhost", ":", "8080">>
A_TEST == <<"https", "://", "a.test">>
B_TEST == <<"https", "://", "b.test">>

\* what a user may type into the address bar
UserInputs ==
    {OPENAI_URL, OPENAI_TEXT, FREE_TEXT, FREE_TEXT_BLANK, HOST_PORT}

EXAMPLE_URL == <<"https", "://", "example.com">>

\* ---------------------------------------------------------------- files
\* A durable file: missing, text json.load rejects, valid JSON of another
\* shape (a number), or a JSON list.
Absent == [kind |-> "absent", value |-> <<>>]
Unparseable == [kind |-> "unparseable", value |-> <<>>]
WrongShape == [kind |-> "wrongshape", value |-> <<>>]

\* json.dump(value, f) into a file opened with "w"
json_dump(value) == [kind |-> "json", value |-> value]
\* os.path.exists(FILE)
exists(f) == f.kind # "absent"
\* json.load(f) returns a list the callers can iterate
json_loads(f) == f.kind = "json"
json_load(f) == f.value

\* URL strings a session file found on disk holds: a.test, b.test, a.test, ...
SessionUrl(i) == IF i % 2 = 1 THEN A_TEST ELSE B_TEST
SessionFiles ==
    {Absent, Unparseable, WrongShape}
        \cup {json_dump([i \in 1..k |-> SessionUrl(i)]) : k \in 0..MaxSessionLen}
ExampleBookmark == [title |-> ShortTitle, url |-> EXAMPLE_URL]
BookmarkFiles ==
    {Absent, Unparseable, WrongShape, json_dump(<<>>), json_dump(<<ExampleBookmark>>)}

\* the extensions directory: missing, or a listing of files
NoDir == [exists |-> FALSE, files |-> <<>>]
Dir(files) == [exists |-> TRUE, files |-> files]
GoodJs == [name |-> "a.js", js |-> TRUE, readable |-> TRUE, code |-> "codeA"]
BadJs == [name |-> "b.js", js |-> TRUE, readable |-> FALSE, code |-> "codeB"]
NotJs == [name |-> "notes.txt", js |-> FALSE, readable |-> TRUE, code |-> "text"]
OtherJs == [name |-> "c.js", js |-> TRUE, readable |-> TRUE, code |-> "codeC"]
ExtDirs == {NoDir, Dir(<<GoodJs, NotJs>>), Dir(<<GoodJs, BadJs>>)}

\* ---------------------------------------------------------------- state
VARIABLES
    phase,           \* "off", "running" or "crashed" (unhandled exception)
    dialog,          \* the Kill All Data question box is open
    tabs,            \* keys of self.tabs in insertion order
    info,            \* self.tabs[view]: title, icon, devtools, frame styling
    stack,           \* widgets of self.stack in index order
    cur,             \* self.stack.currentWidget(), NoView when empty
    url_bar,         \* text of self.url_bar
    views,           \* existing QWebEngineView objects: url and page title
    docks,           \* DevTools dock widgets of the window in creation order:
                     \* the view each inspects, and whether it is visible
    nextView,        \* identity of the next QWebEngineView created
    bookmarks,       \* self.bookmarks
    bookmark_bar,    \* buttons of self.bookmark_bar
    extension_list,  \* items of self.extension_list
    profile,         \* the shared QWebEngineProfile
    sessionFile,     \* session.json
    bookmarksFile,   \* bookmarks.json
    extDir,          \* the extensions directory
    lastOp           \* the operation that ran last

vars == <<phase, dialog, tabs, info, stack, cur, url_bar, views, docks, nextView,
          bookmarks, bookmark_bar, extension_list, profile, sessionFile,
          bookmarksFile, extDir, lastOp>>

NoView == 0
NoIcon == [src |-> "", size |-> 0]
NoDock == 0          \* "devtools": None
\* lastOp: the operation, the view it was about, the live tabs before it ran
Op(name, view) == [op |-> name, view |-> view, before |-> Len(tabs)]

\* the window's tab state as one value, threaded through the methods
G == [tabs |-> tabs, info |-> info, stack |-> stack, cur |-> cur,
      url_bar |-> url_bar, views |-> views, docks |-> docks,
      nextView |-> nextView, fault |-> FALSE]
EmptyG(n) == [tabs |-> <<>>, info |-> <<>>, stack |-> <<>>, cur |-> NoView,
              url_bar |-> <<>>, views |-> <<>>, docks |-> <<>>,
              nextView |-> n, fault |-> FALSE]
SetG(g) ==
    /\ tabs' = g.tabs
    /\ info' = g.info
    /\ stack' = g.stack
    /\ cur' = g.cur
    /\ url_bar' = g.url_bar
    /\ views' = g.views
    /\ docks' = g.docks
    /\ nextView' = g.nextView

Live(g) == Range(g.tabs)
Remove(s, x) == SelectSeq(s, LAMBDA y : y # x)
IndexOf(s, x) == CHOOSE i \in 1..Len(s) : s[i] = x
Restrict(f, S) == [x \in S |-> f[x]]

\* ---------------------------------------------------------------- tabs
\* QStackedWidget.addWidget: the first widget added becomes current
addWidget(g, view) ==
    [g EXCEPT !.stack = Append(g.stack, view),
              !.cur = IF g.stack = <<>> THEN view ELSE g.cur]

\* QStackedWidget.removeWidget: when the current widget goes, the widget that
\* takes its index (or the new last one) becomes current
removeWidget(g, view) ==
    IF view \notin Range(g.stack) THEN g
    ELSE LET i == IndexOf(g.stack, view)
             rest == Remove(g.stack, view)
         IN  [g EXCEPT !.stack = rest,
                       !.cur = IF g.cur # view THEN g.cur
                               ELSE IF rest = <<>> THEN NoView
                               ELSE IF i > Len(rest) THEN rest[i - 1]
                               ELSE rest[i]]

\* QStackedWidget.setCurrentWidget: ignored for a widget not in the stack
setCurrentWidget(g, view) ==
    IF view \in Range(g.stack) THEN [g EXCEPT !.cur = view] ELSE g

\* Browser.switch_tab
switch_tab(g, view) ==
    LET g1 == setCurrentWidget(g, view)
        g2 == [g1 EXCEPT !.url_bar = toString(g.views[view].url)]
        g3 == [g2 EXCEPT !.info = [v \in DOMAIN g.info |->
                                      [g.info[v] EXCEPT !.styled = FALSE]]]
    IN  IF view \in DOMAIN g.info
        THEN [g3 EXCEPT !.info[view].styled = TRUE]
        ELSE [g3 EXCEPT !.fault = TRUE]              \* KeyError

\* new_tab that opens the tab without switching to it
new_tab_background(g, url) ==
    LET view == g.nextView
        g1 == [g EXCEPT !.nextView = view + 1,
                        !.views = (view :> [url |-> fromUserInput(url),
                                            title |-> <<>>]) @@ g.views]
        g2 == addWidget(g1, view)
    IN  [g2 EXCEPT !.tabs = Append(g.tabs, view),
                   !.info = (view :> [title |-> NEW_TAB_TITLE,
                                      icon |-> NoIcon,
                                      devtools |-> NoDock,
                                      styled |-> FALSE]) @@ g.info]

\* Browser.new_tab
new_tab(g, url) ==
    LET view == g.nextView
        g1 == [g EXCEPT !.nextView = view + 1,
                        !.views = (view :> [url |-> fromUserInput(url),
                                            title |-> <<>>]) @@ g.views]
        g2 == addWidget(g1, view)
        g3 == [g2 EXCEPT !.tabs = Append(g.tabs, view),
                         !.info = (view :> [title |-> NEW_TAB_TITLE,
                                            icon |-> NoIcon,
                                            devtools |-> NoDock,
                                            styled |-> FALSE]) @@ g.info]
    IN  switch_tab(g3, view)

\* close_tab without the replacement tab for an emptied tab set
close_tab_no_replacement(g, view) ==
    LET g2 == removeWidget(g, view)
        g3 == [g2 EXCEPT !.tabs = Remove(g.tabs, view),
                         !.info = Restrict(g.info, DOMAIN g.info \ {view})]
    IN  IF g3.tabs # <<>> THEN switch_tab(g3, g3.tabs[1]) ELSE g3

\* close_tab that keeps the active tab when another tab is closed
close_tab_keep_active(g, view) ==
    IF view \notin DOMAIN g.info THEN [g EXCEPT !.fault = TRUE]
    ELSE
    LET g1 == IF g.info[view].devtools # NoDock
              THEN [g EXCEPT !.docks[g.info[view].devtools].visible = FALSE]
              ELSE g
        g2 == removeWidget(g1, view)
        g3 == [g2 EXCEPT !.tabs = Remove(g.tabs, view),
                         !.info = Restrict(g.info, DOMAIN g.info \ {view})]
    IN  IF g3.tabs = <<>> THEN new_tab(g3, DEFAULT_URL)
        ELSE IF g.cur = view THEN switch_tab(g3, g3.tabs[1])
        ELSE switch_tab(g3, g.cur)

\* Browser.close_tab; the view and its frame stay alive (deleteLater) until
\* the event loop destroys them
close_tab(g, view) ==
    IF view \notin DOMAIN g.info THEN [g EXCEPT !.fault = TRUE]   \* KeyError
    ELSE
    LET g1 == IF g.info[view].devtools # NoDock
              THEN [g EXCEPT !.docks[g.info[view].devtools].visible = FALSE]
              ELSE g
        g2 == removeWidget(g1, view)
        g3 == [g2 EXCEPT !.tabs = Remove(g.tabs, view),
                         !.info = Restrict(g.info, DOMAIN g.info \ {view})]
    IN  IF g3.tabs # <<>>
        THEN switch_tab(g3, g3.tabs[1])
        ELSE new_tab(g3, DEFAULT_URL)

\* Browser.current_tab
current_tab(g) == g.cur

\* ---------------------------------------------------------------- navigation
\* Browser.load_url: the QUrl handed to current_tab().setUrl
load_url_target(text) ==
    LET qurl == fromUserInput(text)
    IN  IF scheme(qurl) = "" THEN SearchUrl(text) ELSE qurl

\* ---------------------------------------------------------------- bookmarks
\* Browser.refresh_bookmark_bar: one button per bookmark
refresh_bookmark_bar(bms) ==
    [i \in 1..Len(bms) |-> [text |-> Prefix(bms[i].title, BOOKMARK_CUT),
                            url |-> bms[i].url]]

\* Browser.load_bookmarks
load_bookmarks(file) ==
    IF ~exists(file)
    THEN [fault |-> FALSE, bookmarks |-> <<>>, bar |-> <<>>]
    ELSE IF ~json_loads(file)
    THEN [fault |-> TRUE, bookmarks |-> <<>>, bar |-> <<>>]
    ELSE [fault |-> FALSE, bookmarks |-> json_load(file),
          bar |-> refresh_bookmark_bar(json_load(file))]

\* save_bookmarks writing the list as it was before the last append
save_bookmarks_stale(bms) == json_dump(SubSeq(bms, 1, Len(bms) - 1))

\* Browser.save_bookmarks
save_bookmarks(bms) == json_dump(bms)

\* the record Browser.add_bookmark appends for the current tab
bookmark_of(view) == [title |-> view.title, url |-> toString(view.url)]

\* ---------------------------------------------------------------- extensions
NewScript(file) ==
    [name |-> file.name, code |-> file.code, injectionPoint |-> "DocumentReady",
     subFrames |-> TRUE, world |-> "MainWorld"]

\* the loop of Browser.load_extensions over os.listdir(EXTENSIONS_DIR)
RECURSIVE load_files(_, _)
load_files(files, acc) ==
    IF files = <<>> \/ acc.fault THEN acc
    ELSE LET file == Head(files)
         IN  IF ~file.js THEN load_files(Tail(files), acc)
             ELSE IF ~file.readable
             THEN [acc EXCEPT !.list = Append(acc.list, file.name),
                              !.fault = TRUE]                     \* OSError
             ELSE load_files(Tail(files),
                     [acc EXCEPT !.list = Append(acc.list, file.name),
                                 !.scripts = Append(acc.scripts, NewScript(file))])

\* a clear() that leaves the collection as it is
clear_nothing(collection) == collection

\* QListWidget.clear() and QWebEngineScriptCollection.clear()
clear(collection) == <<>>

\* Browser.load_extensions: list and script collection are cleared first
load_extensions(dir, list, scripts) ==
    load_files(dir.files,
               [list |-> clear(list), scripts |-> clear(scripts), fault |-> FALSE])

\* os.makedirs(EXTENSIONS_DIR) when the directory is missing
makedirs(dir) == Dir(dir.files)

\* ---------------------------------------------------------------- session
\* the snapshot with the active tab's URL first
session_urls_active_first(g) ==
    [i \in 1..Len(g.tabs) |->
        toString(g.views[(<<g.cur>> \o Remove(g.tabs, g.cur))[i]].url)]

\* Browser.closeEvent: the list written to the session file
session_urls(g) == [i \in 1..Len(g.tabs) |-> toString(g.views[g.tabs[i]].url)]

RECURSIVE restore_urls(_, _)
restore_urls(g, urls) ==
    IF urls = <<>> THEN g ELSE restore_urls(new_tab(g, Head(urls)), Tail(urls))

\* restore_session that opens the session file without looking for it first
restore_session_unguarded(g, file) ==
    IF ~exists(file) \/ ~json_loads(file) THEN [g EXCEPT !.fault = TRUE]
    ELSE restore_urls(g, json_load(file))

\* Browser.restore_session
restore_session(g, file) ==
    IF ~exists(file) THEN new_tab(g, DEFAULT_URL)
    ELSE IF ~json_loads(file) THEN [g EXCEPT !.fault = TRUE]
    ELSE restore_urls(g, json_load(file))

\* views restore_session creates
SessionViews(file) ==
    IF ~exists(file) THEN 1 ELSE IF ~json_loads(file) THEN 0 ELSE Len(json_load(file))

\* ---------------------------------------------------------------- kill all data
\* the profile after deleteAllCookies, clearHttpCache, clearAllVisitedLinks
\* and the removal of the persistent storage directory
clear_profile(p) ==
    [p EXCEPT !.cookies = FALSE, !.cache = FALSE, !.visited = FALSE,
              !.storage = FALSE]

RECURSIVE close_all(_, _)
close_all(g, keys) ==
    IF keys = <<>> THEN g ELSE close_all(close_tab(g, Head(keys)), Tail(keys))

\* kill_all_data clearing the profile whatever the answer is
kill_all_profile_unasked(reply, p) == clear_profile(p)

\* Browser.kill_all_data from the answer on: what it does to the profile
kill_all_profile(reply, p) == IF reply = "No" THEN p ELSE clear_profile(p)

\* Browser.kill_all_data from the answer on: what it does to the tabs
kill_all_tabs(reply, g) ==
    IF reply = "No" THEN g ELSE new_tab(close_all(g, g.tabs), BLANK_URL)

\* views kill_all_data creates
KillViews(g) == IF g.tabs = <<>> THEN 1 ELSE 2

\* ---------------------------------------------------------------- devtools
\* Browser.toggle_devtools
toggle_devtools_recreate(g) ==
    LET tab == current_tab(g)
        dock == g.info[tab].devtools
    IN  IF tab = NoView THEN g
        ELSE IF dock # NoDock /\ g.docks[dock].visible
        THEN [g EXCEPT !.docks[dock].visible = FALSE]
        ELSE [g EXCEPT !.docks = Append(g.docks, [page |-> tab, visible |-> TRUE]),
                       !.info[tab].devtools = Len(g.docks) + 1]

toggle_devtools_shared(g) ==
    LET tab == current_tab(g)
        dock == g.info[tab].devtools
        hidden == [d \in 1..Len(g.docks) |-> [g.docks[d] EXCEPT !.visible = FALSE]]
    IN  IF tab = NoView THEN g
        ELSE IF dock # NoDock /\ g.docks[dock].visible
        THEN [g EXCEPT !.docks[dock].visible = FALSE]
        ELSE IF dock = NoDock
        THEN [g EXCEPT !.docks = Append(hidden, [page |-> tab, visible |-> TRUE]),
                       !.info[tab].devtools = Len(g.docks) + 1]
        ELSE [g EXCEPT !.docks = [hidden EXCEPT ![dock].visible = TRUE]]

toggle_devtools(g) ==
    LET tab == current_tab(g)
        dock == g.info[tab].devtools
    IN  IF tab = NoView THEN g
        ELSE IF dock # NoDock /\ g.docks[dock].visible
        THEN [g EXCEPT !.docks[dock].visible = FALSE]
        ELSE IF dock = NoDock
        THEN [g EXCEPT !.docks = Append(g.docks, [page |-> tab, visible |-> TRUE]),
                       !.info[tab].devtools = Len(g.docks) + 1]
        ELSE [g EXCEPT !.docks[dock].visible = TRUE]

\* ---------------------------------------------------------------- init
CleanProfile == [cookies |-> FALSE, cache |-> FALSE, visited |-> FALSE,
                 storage |-> FALSE, scripts |-> <<>>]

InitWith(sessions, bookmarkFiles, dirs) ==
    /\ phase = "off"
    /\ dialog = FALSE
    /\ tabs = <<>>
    /\ info = <<>>
    /\ stack = <<>>
    /\ cur = NoView
    /\ url_bar = <<>>
    /\ views = <<>>
    /\ docks = <<>>
    /\ nextView = 1
    /\ bookmarks = <<>>
    /\ bookmark_bar = <<>>
    /\ extension_list = <<>>
    /\ profile = CleanProfile
    /\ sessionFile \in sessions
    /\ bookmarksFile \in bookmarkFiles
    /\ extDir \in dirs
    /\ lastOp = Op("none", NoView)

\* the process is gone: nothing of the window is left in memory
ProcessGone ==
    /\ SetG(EmptyG(nextView))
    /\ dialog' = FALSE
    /\ bookmarks' = <<>>
    /\ bookmark_bar' = <<>>
    /\ extension_list' = <<>>
    /\ profile' = [profile EXCEPT !.scripts = <<>>]

\* an unhandled exception in a slot or in __init__ ends the process
Crash(name, view) ==
    /\ phase' = "crashed"
    /\ ProcessGone
    /\ lastOp' = Op(name, view)

Idle == phase = "running" /\ ~dialog

\* ---------------------------------------------------------------- actions
\* Browser.__init__ (the program is launched)
Start ==
    /\ phase \in {"off", "crashed"}
    /\ nextView + SessionViews(sessionFile) - 1 <= MaxViews
    /\ LET b == load_bookmarks(bookmarksFile)
           e == load_extensions(extDir, <<>>, profile.scripts)
           g == restore_session(EmptyG(nextView), sessionFile)
       IN  /\ extDir' = IF b.fault THEN extDir ELSE makedirs(extDir)
           /\ UNCHANGED <<sessionFile, bookmarksFile>>
           /\ IF b.fault \/ e.fault \/ g.fault
              THEN Crash("init", NoView)
              ELSE /\ phase' = "running"
                   /\ dialog' = FALSE
                   /\ SetG(g)
                   /\ bookmarks' = b.bookmarks
                   /\ bookmark_bar' = b.bar
                   /\ extension_list' = e.list
                   /\ profile' = [profile EXCEPT !.scripts = e.scripts]
                   /\ lastOp' = Op("init", NoView)

\* a file is put into the extensions directory from outside the program
DirEdited ==
    /\ extDir.exists
    /\ \E file \in {OtherJs, BadJs} :
          /\ file \notin Range(extDir.files)
          /\ extDir' = Dir(Append(extDir.files, file))
    /\ lastOp' = Op("dir_edited", NoView)
    /\ UNCHANGED <<phase, dialog, tabs, info, stack, cur, url_bar, views, docks,
                   nextView, bookmarks, bookmark_bar, extension_list, profile,
                   sessionFile, bookmarksFile>>

\* the "+" button: new_tab()
NewTab ==
    /\ Idle
    /\ nextView <= MaxViews
    /\ SetG(new_tab(G, DEFAULT_URL))
    /\ lastOp' = Op("new_tab", nextView)
    /\ UNCHANGED <<phase, dialog, bookmarks, bookmark_bar, extension_list,
                   profile, sessionFile, bookmarksFile, extDir>>

\* a bookmark button: new_tab(url)
BookmarkClicked ==
    /\ Idle
    /\ nextView <= MaxViews
    /\ \E i \in 1..Len(bookmark_bar) : SetG(new_tab(G, bookmark_bar[i].url))
    /\ lastOp' = Op("new_tab", nextView)
    /\ UNCHANGED <<phase, dialog, bookmarks, bookmark_bar, extension_list,
                   profile, sessionFile, bookmarksFile, extDir>>

\* a tab's title button: switch_tab(view)
SwitchTab ==
    /\ Idle
    /\ \E view \in Live(G) :
          /\ SetG(switch_tab(G, view))
          /\ lastOp' = Op("switch_tab", view)
    /\ UNCHANGED <<phase, dialog, bookmarks, bookmark_bar, extension_list,
                   profile, sessionFile, bookmarksFile, extDir>>

\* a tab's close button: close_tab(view)
CloseTab ==
    /\ Idle
    /\ \E view \in Live(G) :
          /\ Len(tabs) = 1 => nextView <= MaxViews
          /\ SetG(close_tab(G, view))
          /\ lastOp' = Op("close_tab", view)
    /\ UNCHANGED <<phase, dialog, bookmarks, bookmark_bar, extension_list,
                   profile, sessionFile, bookmarksFile, extDir>>

\* a click on the title button of a closed tab whose frame is not destroyed
\* yet (a click already queued when close_tab ran): switch_tab(view)
StaleSwitchTab ==
    /\ Idle
    /\ \E view \in DOMAIN views \ Live(G) :
          LET g == switch_tab(G, view)
          IN  IF g.fault
              THEN Crash("stale_switch", view)
              ELSE /\ SetG(g)
                   /\ lastOp' = Op("stale_switch", view)
                   /\ UNCHANGED <<phase, dialog, bookmarks, bookmark_bar,
                                  extension_list, profile>>
    /\ UNCHANGED <<sessionFile, bookmarksFile, extDir>>

\* a second click on the close button of a closed tab whose frame is not
\* destroyed yet: close_tab(view)
StaleCloseTab ==
    /\ Idle
    /\ \E view \in DOMAIN views \ Live(G) :
          LET g == close_tab(G, view)
          IN  IF g.fault
              THEN Crash("stale_close", view)
              ELSE /\ SetG(g)
                   /\ lastOp' = Op("stale_close", view)
                   /\ UNCHANGED <<phase, dialog, bookmarks, bookmark_bar,
                                  extension_list, profile>>
    /\ UNCHANGED <<sessionFile, bookmarksFile, extDir>>

\* the event loop runs the deferred deletes of closed tabs' views and frames
DestroyDeferred ==
    /\ phase = "running"
    /\ DOMAIN views # Live(G)
    /\ views' = Restrict(views, Live(G))
    /\ lastOp' = Op("destroy", NoView)
    /\ UNCHANGED <<phase, dialog, tabs, info, stack, cur, url_bar, docks,
                   nextView, bookmarks, bookmark_bar, extension_list, profile,
                   sessionFile, bookmarksFile, extDir>>

\* the user edits the address bar
EditUrlBar ==
    /\ Idle
    /\ \E text \in UserInputs : url_bar' = text
    /\ lastOp' = Op("edit", NoView)
    /\ UNCHANGED <<phase, dialog, tabs, info, stack, cur, views, docks,
                   nextView, bookmarks, bookmark_bar, extension_list, profile,
                   sessionFile, bookmarksFile, extDir>>

\* returnPressed of the address bar: load_url()
LoadUrl ==
    /\ Idle
    /\ IF current_tab(G) = NoView
       THEN /\ Crash("load_url", NoView)                    \* AttributeError
            /\ UNCHANGED <<sessionFile, bookmarksFile, extDir>>
       ELSE /\ views' = [views EXCEPT ![cur].url = load_url_target(url_bar)]
            /\ lastOp' = Op("load_url", cur)
            /\ UNCHANGED <<phase, dialog, tabs, info, stack, cur, url_bar,
                           docks, nextView, bookmarks, bookmark_bar,
                           extension_list, profile, sessionFile,
                           bookmarksFile, extDir>>

\* Browser.add_bookmark()
AddBookmark ==
    /\ Idle
    /\ Len(bookmarks) < MaxBookmarks
    /\ lastOp' = Op("add_bookmark", cur)
    /\ IF current_tab(G) = NoView
       THEN UNCHANGED <<bookmarks, bookmarksFile, bookmark_bar>>
       ELSE LET bms == Append(bookmarks, bookmark_of(views[cur]))
            IN  /\ bookmarks' = bms
                /\ bookmarksFile' = save_bookmarks(bms)
                /\ bookmark_bar' = refresh_bookmark_bar(bms)
    /\ UNCHANGED <<phase, dialog, tabs, info, stack, cur, url_bar, views, docks,
                   nextView, extension_list, profile, sessionFile, extDir>>

\* Browser.load_extensions() called again on the running window
ReloadExtensions ==
    /\ Idle
    /\ LET e == load_extensions(extDir, extension_list, profile.scripts)
       IN  /\ extDir' = makedirs(extDir)
           /\ UNCHANGED <<sessionFile, bookmarksFile>>
           /\ IF e.fault
              THEN Crash("load_extensions", NoView)
              ELSE /\ extension_list' = e.list
                   /\ profile' = [profile EXCEPT !.scripts = e.scripts]
                   /\ lastOp' = Op("load_extensions", NoView)
                   /\ UNCHANGED <<phase, dialog, tabs, info, stack, cur,
                                  url_bar, views, docks, nextView, bookmarks,
                                  bookmark_bar>>

\* the engine stores cookies, cache entries, visited links and site storage
\* while pages load
EngineStore ==
    /\ phase = "running"
    /\ tabs # <<>>
    /\ ~profile.cookies
    /\ profile' = [profile EXCEPT !.cookies = TRUE, !.cache = TRUE,
                                  !.visited = TRUE, !.storage = TRUE]
    /\ lastOp' = Op("store", NoView)
    /\ UNCHANGED <<phase, dialog, tabs, info, stack, cur, url_bar, views, docks,
                   nextView, bookmarks, bookmark_bar, extension_list,
                   sessionFile, bookmarksFile, extDir>>

\* view.titleChanged reaches its handler; the view is live or closed and not
\* yet destroyed
TitleChanged ==
    /\ phase = "running"
    /\ \E view \in DOMAIN views, t \in Titles :
          /\ views[view].title # t
          /\ IF view \in DOMAIN info
             THEN /\ info' = [info EXCEPT ![view].title = Prefix(t, TITLE_CUT)]
                  /\ views' = [views EXCEPT ![view].title = t]
                  /\ lastOp' = Op("titleChanged", view)
                  /\ UNCHANGED <<phase, dialog, tabs, stack, cur, url_bar,
                                 docks, nextView, bookmarks, bookmark_bar,
                                 extension_list, profile>>
             ELSE Crash("titleChanged", view)                     \* KeyError
    /\ UNCHANGED <<sessionFile, bookmarksFile, extDir>>

\* view.iconChanged reaches its handler
IconChanged ==
    /\ phase = "running"
    /\ \E view \in DOMAIN views, ic \in Icons :
          IF view \in DOMAIN info
          THEN /\ info[view].icon = NoIcon
               /\ info' = [info EXCEPT ![view].icon =
                                          [src |-> ic, size |-> ICON_SIZE]]
               /\ lastOp' = Op("iconChanged", view)
               /\ UNCHANGED <<phase, dialog, tabs, stack, cur, url_bar, views,
                              docks, nextView, bookmarks, bookmark_bar,
                              extension_list, profile>>
          ELSE Crash("iconChanged", view)                         \* KeyError
    /\ UNCHANGED <<sessionFile, bookmarksFile, extDir>>

\* the DevTools button: toggle_devtools()
ToggleDevtools ==
    /\ Idle
    /\ (cur # NoView /\ info[cur].devtools = NoDock) => Len(docks) < MaxDocks
    /\ SetG(toggle_devtools(G))
    /\ lastOp' = Op("toggle_devtools", cur)
    /\ UNCHANGED <<phase, dialog, bookmarks, bookmark_bar, extension_list,
                   profile, sessionFile, bookmarksFile, extDir>>

\* the Kill All Data button: kill_all_data() up to the question box, which
\* runs its own event loop until it is answered
KillAsk ==
    /\ Idle
    /\ dialog' = TRUE
    /\ lastOp' = Op("kill_ask", NoView)
    /\ UNCHANGED <<phase, tabs, info, stack, cur, url_bar, views, docks,
                   nextView, bookmarks, bookmark_bar, extension_list, profile,
                   sessionFile, bookmarksFile, extDir>>

\* kill_all_data() from the answer on
KillAnswer ==
    /\ phase = "running"
    /\ dialog
    /\ dialog' = FALSE
    /\ \E reply \in {"Yes", "No"} :
          /\ reply = "Yes" => nextView + KillViews(G) - 1 <= MaxViews
          /\ profile' = kill_all_profile(reply, profile)
          /\ SetG(kill_all_tabs(reply, G))
          /\ lastOp' = Op(IF reply = "No" THEN "kill_no" ELSE "kill_yes", NoView)
    /\ UNCHANGED <<phase, bookmarks, bookmark_bar, extension_list, sessionFile,
                   bookmarksFile, extDir>>

\* Browser.closeEvent: the window is closed and the program ends
CloseEvent ==
    /\ Idle
    /\ sessionFile' = json_dump(session_urls(G))
    /\ phase' = "off"
    /\ ProcessGone
    /\ lastOp' = Op("closeEvent", NoView)
    /\ UNCHANGED <<bookmarksFile, extDir>>

\* ---------------------------------------------------------------- specifications
\* Tab life cycle, title notifications, data clearing and the session file,
\* for every session file and a missing or broken bookmarks file
Init == InitWith(SessionFiles, {Absent, Unparseable}, {Dir(<<GoodJs, NotJs>>)})

Next ==
    \/ Start
    \/ NewTab
    \/ SwitchTab
    \/ CloseTab
    \/ DestroyDeferred
    \/ LoadUrl
    \/ TitleChanged
    \/ KillAsk
    \/ KillAnswer
    \/ CloseEvent

Spec == Init /\ [][Next]_vars

\* Title and icon notifications of live and of closed tabs
InitNotify == InitWith({Absent}, {Absent}, {Dir(<<GoodJs, NotJs>>)})

NextNotify ==
    \/ Start
    \/ NewTab
    \/ SwitchTab
    \/ CloseTab
    \/ DestroyDeferred
    \/ TitleChanged
    \/ IconChanged

SpecNotify == InitNotify /\ [][NextNotify]_vars

\* Data clearing and inspection panels, with the data the engine stores
InitKill == InitWith({Absent}, {Absent}, {Dir(<<GoodJs, NotJs>>)})

NextKill ==
    \/ Start
    \/ NewTab
    \/ SwitchTab
    \/ CloseTab
    \/ DestroyDeferred
    \/ ToggleDevtools
    \/ EngineStore
    \/ KillAsk
    \/ KillAnswer

SpecKill == InitKill /\ [][NextKill]_vars

\* Navigation from the address bar and the session round trip of what it loads
InitNav == InitWith({Absent}, {Absent}, {Dir(<<GoodJs, NotJs>>)})

NextNav ==
    \/ Start
    \/ NewTab
    \/ SwitchTab
    \/ EditUrlBar
    \/ LoadUrl
    \/ CloseEvent

SpecNav == InitNav /\ [][NextNav]_vars

\* Bookmarks, for every bookmarks file
InitBookmarks == InitWith({Absent}, BookmarkFiles, {Dir(<<GoodJs, NotJs>>)})

NextBookmarks ==
    \/ Start
    \/ AddBookmark
    \/ BookmarkClicked
    \/ SwitchTab
    \/ TitleChanged
    \/ LoadUrl
    \/ CloseEvent

SpecBookmarks == InitBookmarks /\ [][NextBookmarks]_vars

\* Extension loading, for every extensions directory
InitExt == InitWith({Absent}, {Absent}, ExtDirs)

NextExt ==
    \/ Start
    \/ NewTab
    \/ CloseTab
    \/ ReloadExtensions
    \/ DirEdited
    \/ CloseEvent

SpecExt == InitExt /\ [][NextExt]_vars

\* tabs and their DevTools docks over restarts with the session file; closed
\* views wait for their deferred deletion until the process ends
InitTabs == InitWith(SessionFiles, {Absent}, {Dir(<<GoodJs, NotJs>>)})

NextTabs ==
    \/ Start
    \/ NewTab
    \/ SwitchTab
    \/ CloseTab
    \/ ToggleDevtools
    \/ CloseEvent

SpecTabs == InitTabs /\ [][NextTabs]_vars

\* closed tabs whose buttons still receive clicks
InitStale == InitWith({Absent}, {Absent}, {Dir(<<GoodJs, NotJs>>)})

NextStale ==
    \/ Start
    \/ NewTab
    \/ SwitchTab
    \/ CloseTab
    \/ DestroyDeferred
    \/ StaleSwitchTab
    \/ StaleCloseTab

SpecStale == InitStale /\ [][NextStale]_vars

TypeOK ==
    /\ phase \in {"off", "running", "crashed"}
    /\ dialog \in BOOLEAN
    /\ nextView \in 1..(MaxViews + 1)
    /\ Range(tabs) \subseteq 1..MaxViews
    /\ DOMAIN info = Range(tabs)
    /\ Range(stack) = Range(tabs)
    /\ Range(tabs) \subseteq DOMAIN views
    /\ cur \in Range(tabs) \cup {NoView}

\* ---------------------------------------------------------------- properties
Count(s, x) == Cardinality({i \in 1..Len(s) : s[i] = x})
SameBag(s, t) == \A x \in Range(s) \cup Range(t) : Count(s, x) = Count(t, x)
Malformed(f) == f.kind \in {"unparseable", "wrongshape"}
UrlsOf(ts, vs) == [i \in 1..Len(ts) |-> toString(vs[ts[i]].url)]
Styled == {v \in Range(tabs) : info[v].styled}

\* C1: in the state right after close_tab returns the live tab set is not
\* empty, and closing the only live tab leaves exactly one live tab, a newly
\* created default tab.
C1_CloseTabKeepsATab ==
    lastOp.op = "close_tab" =>
        /\ phase = "running"
        /\ tabs # <<>>
        /\ lastOp.before = 1 =>
              /\ Len(tabs) = 1
              /\ tabs[1] # lastOp.view
              /\ tabs[1] = nextView - 1
              /\ views[tabs[1]].url = fromUserInput(DEFAULT_URL)
              /\ info[tabs[1]].title = NEW_TAB_TITLE
              /\ info[tabs[1]].devtools = NoDock

C1_Witness ==
    /\ lastOp.op = "close_tab"
    /\ lastOp.before = 1
    /\ Len(tabs) = 1
    /\ lastOp.view \in DOMAIN views

\* C2: once initialization has completed the live tab set holds at least one
\* tab, whatever the session file held (absent, an empty list, a list of URLs).
C2_AlwaysATabAfterInit ==
    (phase = "running" /\ ~Malformed(sessionFile)) => tabs # <<>>

\* C3: at every observation point after initialization exactly one live tab
\* carries the active styling, it is the tab current_tab() returns, and it is
\* in the live tab set.
C3_ExactlyOneActiveTab ==
    phase = "running" =>
        /\ Cardinality(Styled) = 1
        /\ current_tab(G) \in Range(tabs)
        /\ Styled = {current_tab(G)}

\* C4: a title or icon notification delivered for a view whose tab close_tab
\* has removed is dropped: no fault, and tab metadata, live set and active tab
\* stay as they were.
C4_StaleNotificationDropped ==
    [][(/\ lastOp'.op \in {"titleChanged", "iconChanged"}
        /\ lastOp'.view \notin Range(tabs))
       => (phase' = "running" /\ UNCHANGED <<tabs, info, cur>>)]_vars

\* C5: after a confirmed kill_all_data with n >= 1 tabs open, exactly one tab
\* is live, it is a fresh about:blank tab, and the tabs open before are closed.
C5_KillLeavesOneBlankTab ==
    (lastOp.op = "kill_yes" /\ lastOp.before >= 1) =>
        /\ Len(tabs) = 1
        /\ tabs[1] = nextView - 1
        /\ views[tabs[1]].url = fromUserInput(BLANK_URL)

\* C6: kill_all_data changes nothing before the answer is in, and nothing at
\* all when the answer is No: profile data, live tabs, active tab and
\* inspection panels are as they were.
C6_DeclineIsNoOp ==
    [][lastOp'.op \in {"kill_ask", "kill_no"}
       => UNCHANGED <<phase, profile, tabs, info, stack, cur, url_bar, views,
                      docks, nextView, bookmarks, bookmark_bar, extension_list,
                      sessionFile, bookmarksFile, extDir>>]_vars

C6_Witness ==
    /\ lastOp.op = "kill_no"
    /\ profile.cookies /\ profile.cache /\ profile.visited /\ profile.storage
    /\ Len(tabs) >= 2
    /\ \E v \in Range(tabs) :
          info[v].devtools # NoDock /\ docks[info[v].devtools].visible

\* C7: a session or bookmarks file that exists but is malformed is treated as
\* missing: initialization completes without a fault, with one default tab or
\* an empty bookmark list respectively.
C7_MalformedFileActsAsMissing ==
    (lastOp.op = "init" /\ (Malformed(sessionFile) \/ Malformed(bookmarksFile))) =>
        /\ phase = "running"
        /\ Malformed(bookmarksFile) => bookmarks = <<>>
        /\ Malformed(sessionFile) =>
              /\ Len(tabs) = 1
              /\ views[tabs[1]].url = fromUserInput(DEFAULT_URL)

\* C8: closeEvent overwrites the session file with one URL per live tab, and
\* the restore_session of the next launch creates exactly as many tabs as
\* saved URLs, navigated to the saved URLs (equal as multisets).
C8_SessionRoundTrip ==
    [][/\ lastOp'.op = "closeEvent" =>
              sessionFile' = json_dump(UrlsOf(tabs, views))
       /\ (lastOp.op = "closeEvent" /\ lastOp'.op = "init") =>
              /\ phase' = "running"
              /\ Len(tabs') = Len(json_load(sessionFile))
              /\ SameBag(UrlsOf(tabs', views'), json_load(sessionFile))]_vars

\* C9: the bookmarks file holds exactly the in-memory bookmark sequence; each
\* add_bookmark appends the current tab's (title, url) record last, keeping
\* duplicates and the order of earlier entries, and saves before it returns;
\* load_bookmarks of the next launch yields the identical sequence.
C9_BookmarksPersisted ==
    /\ [](phase = "running" /\ (bookmarks # <<>> \/ exists(bookmarksFile))
            => bookmarksFile = json_dump(bookmarks))
    /\ [][/\ (lastOp'.op = "add_bookmark" /\ current_tab(G) # NoView) =>
                 /\ bookmarks' = Append(bookmarks,
                                    [title |-> views[cur].title,
                                     url |-> toString(views[cur].url)])
                 /\ bookmarksFile' = json_dump(bookmarks')
          /\ (lastOp'.op = "init" /\ exists(bookmarksFile) /\ phase' = "running") =>
                 json_dump(bookmarks') = bookmarksFile]_vars

C9_Witness ==
    /\ lastOp.op = "add_bookmark"
    /\ Len(bookmarks) = 2
    /\ bookmarks[1] = bookmarks[2]
    /\ bookmarksFile = json_dump(bookmarks)
    /\ bookmarks[1].title = LongTitle

\* C10: load_url with text that carries a scheme navigates the active tab to
\* exactly that URL; with text that carries none, to the search-template URL
\* with the text as its query; only the active tab's target changes.
CarriesScheme(text) == Len(text) >= 2 /\ text[2] = "://"
FreeText(text) == ":" \notin Range(text) /\ "://" \notin Range(text)
C10_LoadUrlTarget ==
    [][lastOp'.op = "load_url" =>
          /\ phase' = "running"
          /\ CarriesScheme(url_bar) => toString(views'[cur].url) = url_bar
          /\ FreeText(url_bar) => views'[cur].url = SearchUrl(url_bar)
          /\ \A v \in DOMAIN views \ {cur} : views'[v] = views[v]
          /\ UNCHANGED <<tabs, info, cur>>]_vars

ScriptNames(scripts) == [i \in 1..Len(scripts) |-> scripts[i].name]
NoDuplicates(s) == \A i, j \in 1..Len(s) : s[i] = s[j] => i = j
ReadableJs(dir) == SelectSeq(dir.files, LAMBDA f : f.js /\ f.readable)
UnreadableJs(dir) == SelectSeq(dir.files, LAMBDA f : f.js /\ ~f.readable)

\* C11: a load_extensions that follows a load_extensions (or the load of
\* __init__) with the extensions directory unchanged in between leaves the
\* installed scripts and the displayed names as the first load left them, and
\* no script is installed twice.
C11_ReloadIdempotent ==
    [][(/\ phase = "running"
        /\ lastOp.op \in {"init", "load_extensions"}
        /\ lastOp'.op = "load_extensions")
       => /\ phase' = "running"
          /\ profile'.scripts = profile.scripts
          /\ extension_list' = extension_list
          /\ NoDuplicates(ScriptNames(profile'.scripts))]_vars

C11_Witness ==
    /\ phase = "running"
    /\ lastOp.op = "load_extensions"
    /\ Len(profile.scripts) = 2
    /\ extension_list = ScriptNames(profile.scripts)

\* C12: load_extensions skips a script file it cannot read without raising:
\* the readable script files are installed, the unreadable one is not, and
\* the program goes on.
C12_UnreadableFileSkipped ==
    (lastOp.op \in {"init", "load_extensions"} /\ UnreadableJs(extDir) # <<>>) =>
        /\ phase = "running"
        /\ ScriptNames(profile.scripts) = ScriptNames(ReadableJs(extDir))

\* the DevTools docks that inspect view v
DocksOf(v) == {d \in 1..Len(docks) : docks[d].page = v}

\* C13: inspection sessions are per tab.  toggle_devtools leaves the active
\* tab with a dock that inspects that tab and no other live tab refers to,
\* and leaves every other tab's entry and every other dock as they were;
\* close_tab leaves every other live tab's dock reference, and that dock's
\* page and visibility, as they were.
C13_SessionsPerTab ==
    [][/\ (lastOp'.op = "toggle_devtools" /\ cur # NoView) =>
             /\ info'[cur].devtools # NoDock
             /\ docks'[info'[cur].devtools].page = cur
             /\ \A v \in Range(tabs) \ {cur} :
                   /\ info'[v] = info[v]
                   /\ info'[v].devtools # info'[cur].devtools
             /\ \A d \in 1..Len(docks) :
                   d # info[cur].devtools => docks'[d] = docks[d]
       /\ lastOp'.op = "close_tab" =>
             \A v \in Range(tabs) \ {lastOp'.view} :
                 /\ v \in Range(tabs')
                 /\ info'[v].devtools = info[v].devtools
                 /\ info[v].devtools # NoDock =>
                       docks'[info[v].devtools] = docks[info[v].devtools]]_vars

C13_Witness ==
    /\ phase = "running"
    /\ lastOp.op = "close_tab"
    /\ DocksOf(lastOp.view) # {}
    /\ \E v \in Range(tabs) :
          /\ info[v].devtools # NoDock
          /\ docks[info[v].devtools].page = v
          /\ docks[info[v].devtools].visible

\* C14: a missing durable file is not an error.  After __init__ with no
\* bookmarks file the bookmark list and bar are empty, after __init__ with no
\* session file exactly one tab exists and it shows the default page, and
\* the program runs (unless the other file is the one that cannot be read).
C14_MissingFileIsNotAnError ==
    lastOp.op = "init" =>
        /\ (~exists(bookmarksFile) /\ ~Malformed(sessionFile)) =>
              /\ phase = "running"
              /\ bookmarks = <<>>
              /\ bookmark_bar = <<>>
        /\ (~exists(sessionFile) /\ ~Malformed(bookmarksFile)) =>
              /\ phase = "running"
              /\ Len(tabs) = 1
              /\ cur = tabs[1]
              /\ views[tabs[1]].url = fromUserInput(DEFAULT_URL)

C14_Witness ==
    /\ lastOp.op = "init"
    /\ ~exists(bookmarksFile)
    /\ ~exists(sessionFile)
    /\ phase = "running"
    /\ bookmarks = <<>>
    /\ Len(tabs) = 1

\* C15: toggle_devtools on a live tab.  The first toggle creates one dock that
\* inspects the tab and shows it; a toggle while the dock is shown hides that
\* dock and keeps it; a toggle while it is hidden shows the same dock again.
\* At any time at most one dock inspects a live tab, and no step gives a tab
\* that stays live another dock than the one it has.
C15_ToggleKeepsOneSession ==
    [][/\ (lastOp'.op = "toggle_devtools" /\ cur # NoView) =>
             LET dock == info[cur].devtools
             IN  /\ dock = NoDock =>
                       /\ docks' = Append(docks, [page |-> cur, visible |-> TRUE])
                       /\ info'[cur].devtools = Len(docks')
                 /\ dock # NoDock =>
                       /\ info'[cur].devtools = dock
                       /\ docks' = [docks EXCEPT ![dock].visible = ~docks[dock].visible]
       /\ \A v \in Range(tabs') : Cardinality(DocksOf(v)') <= 1
       /\ \A v \in Range(tabs) \cap Range(tabs') :
             info[v].devtools # NoDock =>
                 /\ info'[v].devtools = info[v].devtools
                 /\ docks'[info[v].devtools].page = v]_vars

\* a dock that was created, hidden and is shown again
C15_Witness ==
    /\ phase = "running"
    /\ lastOp.op = "toggle_devtools"
    /\ cur # NoView
    /\ info[cur].devtools # NoDock
    /\ docks[info[cur].devtools].visible
    /\ info[cur].devtools < Len(docks)

\* C16: in no reachable state is a DevTools dock shown for, or still attached
\* to the page of, a view that close_tab has removed from the live tabs.
C16_NoSessionOnClosedTab ==
    \A d \in 1..Len(docks) :
        docks[d].page \notin Range(tabs) =>
            /\ ~docks[d].visible
            /\ docks[d].page \notin DOMAIN views

\* C17: closed is terminal.  A view that exists and is not a live tab never
\* becomes a live tab or the active tab again, and a switch or close request
\* for it that arrives from its not yet destroyed buttons leaves the program
\* running.
C17_ClosedIsTerminal ==
    [][/\ \A v \in 1..(nextView - 1) :
             v \notin Range(tabs) => (v \notin Range(tabs') /\ cur' # v)
       /\ lastOp'.op \in {"stale_switch", "stale_close"} => phase' = "running"]_vars

\* views in the order of their creation
RECURSIVE Ascending(_)
Ascending(S) ==
    IF S = {} THEN <<>>
    ELSE LET m == CHOOSE x \in S : \A y \in S : x <= y
         IN  <<m>> \o Ascending(S \ {m})

\* C18: after new_tab the new tab is the last of the live tabs and the active
\* one, is titled "New Tab" and has no dock, and every tab that was live
\* before is still live with its title, icon, dock and page as they were;
\* after __init__ restored a non-empty session file the active tab is the one
\* created for the file's last URL.
C18_NewTabIsActive ==
    [][/\ lastOp'.op = "new_tab" =>
             LET v == lastOp'.view
             IN  /\ v \notin Range(tabs)
                 /\ tabs' = Append(tabs, v)
                 /\ cur' = v
                 /\ info'[v].title = NEW_TAB_TITLE
                 /\ info'[v].devtools = NoDock
                 /\ \A d \in 1..Len(docks') : docks'[d].page # v
                 /\ docks' = docks
                 /\ \A w \in Range(tabs) :
                       /\ info'[w].title = info[w].title
                       /\ info'[w].icon = info[w].icon
                       /\ info'[w].devtools = info[w].devtools
                       /\ views'[w] = views[w]
       /\ (/\ lastOp'.op = "init"
           /\ phase' = "running"
           /\ json_loads(sessionFile)
           /\ json_load(sessionFile) # <<>>) =>
             LET urls == json_load(sessionFile)
             IN  /\ cur' = tabs'[Len(tabs')]
                 /\ views'[cur'].url = fromUserInput(urls[Len(urls)])]_vars

\* a tab opened next to a tab that has a shown dock
C18_Witness ==
    /\ phase = "running"
    /\ lastOp.op = "new_tab"
    /\ cur = lastOp.view
    /\ Len(tabs) >= 2
    /\ \E w \in Range(tabs) \ {cur} :
          info[w].devtools # NoDock /\ docks[info[w].devtools].visible

\* C19: after close_tab with another tab remaining the active tab is the
\* earliest created of the remaining live tabs, whichever tab was active
\* before.
C19_EarliestRemainingIsActive ==
    [][(lastOp'.op = "close_tab" /\ Len(tabs) > 1) =>
          /\ phase' = "running"
          /\ Range(tabs') = Range(tabs) \ {lastOp'.view}
          /\ cur' = Ascending(Range(tabs'))[1]
          /\ Styled' = {cur'}]_vars

\* a later tab was closed with two or more tabs remaining
C19_Witness ==
    /\ phase = "running"
    /\ lastOp.op = "close_tab"
    /\ Len(tabs) >= 2
    /\ lastOp.view > tabs[2]
    /\ cur = tabs[1]

\* C20: closeEvent writes the URLs of the live tabs in the order the tabs were
\* created, and __init__ creates one tab per URL of a readable session file,
\* in the file's order.
C20_SnapshotInCreationOrder ==
    [][/\ lastOp'.op = "closeEvent" =>
             sessionFile' = json_dump(UrlsOf(Ascending(Range(tabs)), views))
       /\ (lastOp'.op = "init" /\ phase' = "running" /\ json_loads(sessionFile)) =>
             LET urls == json_load(sessionFile)
             IN  /\ tabs' = Ascending(Range(tabs'))
                 /\ Len(tabs') = Len(urls)
                 /\ \A i \in 1..Len(urls) :
                       views'[tabs'[i]].url = fromUserInput(urls[i])]_vars

\* a session of two different URLs was restored, after a switch away from the
\* last tab, closed and written again
C20_Witness ==
    /\ lastOp.op = "closeEvent"
    /\ json_loads(sessionFile)
    /\ Len(json_load(sessionFile)) >= 2
    /\ json_load(sessionFile)[1] # json_load(sessionFile)[2]

====
